---- MODULE Spec2Model ----
(***************************************************************************)
(* Model of check-security-updates.py: the Updates class (run,             *)
(* create_output, check_expired, check_cache, update_cache, clean_cache)   *)
(* and the order in which main() drives it.                                *)
(*                                                                         *)
(* Text is modelled at token granularity: a line is the sequence of its    *)
(* whitespace-separated tokens, a leading "" token standing for leading    *)
(* whitespace.  Calendar dates are day numbers.  A string holding a date   *)
(* keeps its format, so that strptime with another format fails as it      *)
(* does in the program.  The cache file is the sequence of its rows; a     *)
(* file that does not exist yet reads as the empty sequence.               *)
(***************************************************************************)
EXTENDS Integers, Sequences, FiniteSets, TLC

VARIABLES
    cache,          \* rows of the cache file: [patch, date]
    pc,             \* position of main(): new, loop, output, clean, exit, crashed
    rc,             \* Updates.rc
    critical,       \* Updates.critical   (dict: text -> value)
    important,      \* Updates.important
    moderate,       \* Updates.moderate
    low,            \* Updates.low
    next_patchdate, \* Updates.next_patchdate
    expired,        \* Updates.expired
    nokernel,       \* Updates.nokernel
    verbose,        \* run(cmd, verbose)
    inventory,      \* what the inventory command prints on this host
    info,           \* what the detail command printed for a patch (it prints the same again)
    output,         \* run(): the list of lines being iterated
    idx,            \* run(): index of the current line
    stage,          \* run(): position inside the loop body, 0 (head) .. 5 (tail)
    l_expired,      \* run(): the loop body's local "expired" (None reads as FALSE)
    l_expdate,      \* run(): the loop body's local "expiration_date"
    result,         \* what create_output returned / the process exit code
    message,        \* the report line printed by main()
    runs,           \* number of the current invocation of the probe
    calls,          \* detail commands invoked in this invocation
    appends,        \* rows appended to the cache in this invocation
    cleaned,        \* clean_cache in this invocation: "no", "done" or "failed"
    fault,          \* the exception that ended this invocation, "" for none
    cache0,         \* the cache file as this invocation found it
    wfail,          \* a cache append failed in this invocation
    wfails,         \* cache appends that have failed so far, in all invocations
    evlog,          \* the check_expired calls of this invocation, in order
    prev,           \* summary of the previous invocation
    lookup,         \* the last check_cache call made on the file by itself
    other           \* a second probe process working on the same cache file

vars == <<cache, pc, rc, critical, important, moderate, low, next_patchdate,
          expired, nokernel, verbose, inventory, info, output, idx, stage,
          l_expired, l_expdate, result, message, runs, calls, appends,
          cleaned, fault, cache0, wfail, wfails, evlog, prev, lookup, other>>

----------------------------------------------------------------------------
(* Bounds of the model *)

MaxLines == 2       \* lines printed by the inventory command
MaxRuns == 2        \* invocations of the probe, one after the other
MaxWriteFailures == 1   \* cache appends that fail
MaxRows == 3        \* rows of a cache file found on disk
MaxSharedLines == 1 \* lines of the inventory when two probes share the cache file
Today == 1000       \* date.today() as a day number; dates are taken relative to it

(* Program constants *)

OK == 0
WARNING == 1
CRITICAL == 2
UNKNOWN == 3
SlaCritical == 30
SlaOther == 90
Retention == 365

----------------------------------------------------------------------------
(* Values *)

NoneV == [t |-> "None", d |-> 0]            \* Python None
DateV(d) == [t |-> "date", d |-> d]         \* a datetime.date
StrV(d) == [t |-> "str", d |-> d]           \* the string "YYYY-MM-DD"
TsV(d) == [t |-> "ts", d |-> d]             \* the string "YYYY-MM-DD HH:MM:SS"
TextV == [t |-> "text", d |-> 0]            \* any other string
NoneStr == [t |-> "strNone", d |-> 0]       \* the string "None"

\* datetime.strptime(s, "%Y-%m-%d").date(): NoneV stands for ValueError
StrptimeDate(s) == IF s.t = "str" THEN DateV(s.d) ELSE NoneV

\* datetime.strptime(s, "%Y-%m-%d %H:%M:%S"): NoneV stands for ValueError
StrptimeDateTime(s) == IF s.t = "ts" THEN DateV(s.d) ELSE NoneV

\* d.strftime("%Y-%m-%d")
Strftime(v) == StrV(v.d)

EmptyDict == [k \in {} |-> NoneV]

Put(f, k, v) == [x \in (DOMAIN f) \cup {k} |-> IF x = k THEN v ELSE f[x]]

----------------------------------------------------------------------------
(* Text: tokens, lines and the regular expressions of run() *)

Marker(i) ==
    CASE i = 1 -> "Critical/Sec."
      [] i = 2 -> "Important/Sec."
      [] i = 3 -> "Moderate/Sec."
      [] i = 4 -> "Low/Sec."

Markers == {Marker(i) : i \in 1..4}

\* the token starts with "kernel"
IsKernel(tok) == tok \in {"kernel-5.10", "kernel-chromium-1.0"}

\* the part of the token from "firefox" or "chrom" on, "" when there is none
PkgsSuffix(tok) ==
    CASE tok = "firefox-91.0"        -> "firefox-91.0"
      [] tok = "kernel-chromium-1.0" -> "chromium-1.0"
      [] OTHER                       -> ""

\* least index at which the sequence of booleans holds TRUE, 0 when there is none
RECURSIVE FirstFrom(_, _)
FirstFrom(flags, i) ==
    IF i > Len(flags) THEN 0
    ELSE IF flags[i] THEN i
    ELSE FirstFrom(flags, i + 1)

First(flags) == FirstFrom(flags, 1)

\* re.search(r"/Sec.\s*(kernel.*)", line)
KernelMatch(line) ==
    \E i \in 1..(Len(line) - 1) : line[i] \in Markers /\ IsKernel(line[i + 1])

\* re.search(f"\s*{pkgs}", line): index of the matching token, 0 for no match
PkgsMatch(line) == First([i \in 1..Len(line) |-> PkgsSuffix(line[i]) # ""])

\* "Critical/Sec.  " + m.group(0).strip()
PkgsKey(line) ==
    LET i == PkgsMatch(line)
    IN  <<"Critical/Sec.", "", PkgsSuffix(line[i])>> \o SubSeq(line, i + 1, Len(line))

\* re.search(r"<Severity>/Sec.\s*(.*)$", line): index of the marker, 0 for no match
SevMatch(sev, line) == First([i \in 1..Len(line) |-> line[i] = Marker(sev)])

\* the whole line as the key of the bucket entry
SevKeyWholeLine(sev, line) == line

\* m.group(0) of that search: the text from the marker to the end of the line
SevKey(sev, line) == SubSeq(line, SevMatch(sev, line), Len(line))

\* the next severity after s whose pattern matches the line, 5 when none is left
NextSev(s, line) ==
    IF \E sev \in (s + 1)..4 : SevMatch(sev, line) # 0
    THEN CHOOSE sev \in (s + 1)..4 :
           /\ SevMatch(sev, line) # 0
           /\ \A t \in (s + 1)..(sev - 1) : SevMatch(t, line) = 0
    ELSE 5

\* re.match(r"([^\s]+)\s", line)
PatchMatch(line) == Len(line) >= 2 /\ line[1] # ""

\* m.group(0).strip()
PatchOf(line) == line[1]

\* days_limit of the check_expired call made for each severity
DaysLimit(sev) == IF sev = 1 THEN SlaCritical ELSE SlaOther

Lines ==
    { <<"RHSA-1", "Critical/Sec.", "bash-5.0">>,
      <<"RHSA-2", "Critical/Sec.", "bash-5.0">>,
      <<"RHSA-1", "Important/Sec.", "bash-5.0">>,
      <<"RHSA-2", "Moderate/Sec.", "bash-5.0">>,
      <<"RHSA-1", "Low/Sec.", "bash-5.0">>,
      <<"RHSA-2", "Important/Sec.", "kernel-5.10">>,
      <<"RHSA-2", "Critical/Sec.", "firefox-91.0">>,
      <<"RHSA-1", "Moderate/Sec.", "kernel-chromium-1.0">>,
      <<"RHSA-1", "Critical/Sec.", "Important/Sec.", "bash-5.0">>,
      <<"", "RHSA-2", "Low/Sec.", "bash-5.0">>,
      <<"Loaded", "plugins">> }

Inventories == UNION {[1..n -> Lines] : n \in 0..MaxLines}

----------------------------------------------------------------------------
(* The detail command: yum updateinfo info <patch> *)

Ages == {SlaCritical - 1, SlaCritical, SlaOther - 1, SlaOther, Retention}

InfoLine(label, val) == [label |-> label, val |-> val]

DetailOutputs ==
    { <<InfoLine("Type", TextV), InfoLine("Updated", TextV)>>,
      <<InfoLine("Type", TextV), InfoLine("Issued", TsV(Today - SlaCritical)),
        InfoLine("Updated", TsV(Today - SlaOther))>> }
    \cup { <<InfoLine("Updated", TsV(Today - a))>> : a \in Ages \ {SlaCritical} }

\* re.match(r"\s*(Updated|Issued)\s*:\s*(\d+-\d+-\d+ \d+:\d+:\d+)", info_line)
InfoMatch(info_line) ==
    info_line.label \in {"Updated", "Issued"} /\ info_line.val.t = "ts"

\* faults of an external command, by the except clause that handles them
Faults == {"TimeoutExpired", "ValueError", "FileNotFoundError", "Exception"}
\* every except clause exits with CRITICAL
FaultExitAllCritical(exc) == CRITICAL

FaultExit(exc) ==
    IF exc \in {"TimeoutExpired", "ValueError"} THEN UNKNOWN ELSE CRITICAL

----------------------------------------------------------------------------
(* The cache file *)

Row(patch, date) == [patch |-> patch, date |-> date]
\* check_cache that reports a row holding "None" as a miss
CheckCacheNoneIsMiss(c, patch) ==
    LET i == First([k \in 1..Len(c) |-> c[k].patch = patch])
    IN  IF i = 0 THEN [found |-> FALSE, date |-> NoneV]
        ELSE IF c[i].date # NoneStr /\ StrptimeDate(c[i].date) # NoneV
             THEN [found |-> TRUE, date |-> StrptimeDate(c[i].date)]
             ELSE [found |-> FALSE, date |-> NoneV]

\* check_cache that takes the first row of the file for a header and skips it
CheckCacheSkipsHeader(c, patch) ==
    LET i == First([k \in 1..Len(c) |-> k > 1 /\ c[k].patch = patch])
    IN  IF i = 0 THEN [found |-> FALSE, date |-> NoneV]
        ELSE IF c[i].date # NoneStr
             THEN IF StrptimeDate(c[i].date) = NoneV
                  THEN [found |-> FALSE, date |-> NoneV]
                  ELSE [found |-> TRUE, date |-> StrptimeDate(c[i].date)]
             ELSE [found |-> TRUE, date |-> NoneV]

\* check_cache that goes through all rows: the last row of the patch decides
CheckCacheLast(c, patch) ==
    LET n == Len(c)
        i == First([k \in 1..n |-> c[n + 1 - k].patch = patch])
    IN  IF i = 0 THEN [found |-> FALSE, date |-> NoneV]
        ELSE IF c[n + 1 - i].date # NoneStr
             THEN IF StrptimeDate(c[n + 1 - i].date) = NoneV
                  THEN [found |-> FALSE, date |-> NoneV]
                  ELSE [found |-> TRUE, date |-> StrptimeDate(c[n + 1 - i].date)]
             ELSE [found |-> TRUE, date |-> NoneV]

\* check_cache: the first row of the patch decides; an exception reads as a miss
CheckCache(c, patch) ==
    LET i == First([k \in 1..Len(c) |-> c[k].patch = patch])
    IN  IF i = 0 THEN [found |-> FALSE, date |-> NoneV]
        ELSE IF c[i].date # NoneStr
             THEN IF StrptimeDate(c[i].date) = NoneV
                  THEN [found |-> FALSE, date |-> NoneV]
                  ELSE [found |-> TRUE, date |-> StrptimeDate(c[i].date)]
             ELSE [found |-> TRUE, date |-> NoneV]
\* update_cache that writes "None" whatever the date
UpdateCacheNone(c, patch, patch_date) == Append(c, Row(patch, NoneStr))

\* update_cache, when the write succeeds
UpdateCache(c, patch, patch_date) ==
    Append(c, Row(patch, IF patch_date # NoneV THEN Strftime(patch_date) ELSE NoneStr))

\* clean_cache: patches[row['patch_name']] = row['patch_date'], as list(patches.items())
RECURSIVE DictItems(_, _)
DictItems(c, acc) ==
    IF c = <<>> THEN acc
    ELSE LET row == Head(c)
             i == First([k \in 1..Len(acc) |-> acc[k].patch = row.patch])
         IN  DictItems(Tail(c),
                       IF i = 0 THEN Append(acc, row)
                       ELSE [acc EXCEPT ![i] = row])

\* order of the stored strings: "None" sorts after every "YYYY-MM-DD"
StrGreater(a, b) ==
    \/ a = NoneStr /\ b # NoneStr
    \/ a # NoneStr /\ b # NoneStr /\ a.d > b.d

\* sorting in ascending order and reversing the result: equal keys change places
RECURSIVE SortedReverseUnstable(_, _)
SortedReverseUnstable(items, acc) ==
    IF items = <<>> THEN acc
    ELSE LET x == Head(items)
             i == First([k \in 1..Len(acc) |-> ~StrGreater(acc[k].date, x.date)])
         IN  SortedReverseUnstable(Tail(items),
                           IF i = 0 THEN Append(acc, x)
                           ELSE SubSeq(acc, 1, i - 1) \o <<x>> \o SubSeq(acc, i, Len(acc)))

\* sorted(items, key=lambda kv: kv[1], reverse=True): stable, greatest first
RECURSIVE SortedReverse(_, _)
SortedReverse(items, acc) ==
    IF items = <<>> THEN acc
    ELSE LET x == Head(items)
             i == First([k \in 1..Len(acc) |-> StrGreater(x.date, acc[k].date)])
         IN  SortedReverse(Tail(items),
                           IF i = 0 THEN Append(acc, x)
                           ELSE SubSeq(acc, 1, i - 1) \o <<x>> \o SubSeq(acc, i, Len(acc)))

\* dx.days of clean_cache: a ValueError of strptime gives timedelta(0)
AgeDays(patch_date) ==
    IF StrptimeDateTime(patch_date) = NoneV THEN 0
    ELSE Today - StrptimeDateTime(patch_date).d

\* the row is written back by clean_cache
Kept(row) == AgeDays(row.date) < Retention

RECURSIVE SelectKept(_)
SelectKept(items) ==
    IF items = <<>> THEN <<>>
    ELSE IF Kept(Head(items)) THEN <<Head(items)>> \o SelectKept(Tail(items))
    ELSE SelectKept(Tail(items))

\* clean_cache, when the file can be rewritten
CleanedCache(c) == SelectKept(SortedReverse(DictItems(c, <<>>), <<>>))

----------------------------------------------------------------------------
(* check_expired *)
\* the loop over the info lines without the "break": the last match decides
RECURSIVE LastMatch(_, _)
LastMatch(out, i) ==
    IF i = 0 THEN 0 ELSE IF InfoMatch(out[i]) THEN i ELSE LastMatch(out, i - 1)

DetailDateLast(out) ==
    IF LastMatch(out, Len(out)) = 0 THEN NoneV
    ELSE StrptimeDateTime(out[LastMatch(out, Len(out))].val)

\* the date of the first info line that matches, NoneV when none matches
DetailDate(out) ==
    LET i == First([k \in 1..Len(out) |-> InfoMatch(out[k])])
    IN  IF i = 0 THEN NoneV ELSE StrptimeDateTime(out[i].val)
\* lines 281-292 with "today > expiration_date"
ExpirationStrict(patch_date, days_limit) ==
    IF patch_date # NoneV
    THEN [expired |-> Today > patch_date.d + days_limit,
          expdate |-> DateV(patch_date.d + days_limit)]
    ELSE [expired |-> FALSE, expdate |-> NoneV]

\* lines 281-292: (expired, expiration_date) from the resolved patch date
Expiration(patch_date, days_limit) ==
    IF patch_date # NoneV
    THEN [expired |-> Today >= patch_date.d + days_limit,
          expdate |-> DateV(patch_date.d + days_limit)]
    ELSE [expired |-> FALSE, expdate |-> NoneV]

\* the log entry of one check_expired call
Eval(line, sev, days, path, reldate, res) ==
    [line |-> line, sev |-> sev, days |-> days, path |-> path, reldate |-> reldate,
     expired |-> res.expired, expdate |-> res.expdate]

----------------------------------------------------------------------------
(* State *)

NoPrev == [ended |-> "none"]

NoMessage == [label |-> "", counts |-> <<>>, next_patchdate |-> NoneV]

NoLookup == [patch |-> "", found |-> FALSE, date |-> NoneV, seen |-> <<>>]

\* the second probe between two check_expired calls; overlap: one of its calls so
\* far was made while this probe was running
OtherIdle(overlap) == [pc |-> "idle", patch |-> "", at |-> <<0, "">>, overlap |-> overlap]

\* Updates.__init__ and the locals of run()
FreshObject ==
    /\ rc' = -1
    /\ critical' = EmptyDict
    /\ important' = EmptyDict
    /\ moderate' = EmptyDict
    /\ low' = EmptyDict
    /\ next_patchdate' = NoneV
    /\ expired' = FALSE
    /\ output' = <<>>
    /\ idx' = 0
    /\ stage' = 0
    /\ l_expired' = FALSE
    /\ l_expdate' = NoneV
    /\ result' = -1
    /\ message' = NoMessage

Init ==
    /\ cache = <<>>
    /\ pc = "new"
    /\ rc = -1
    /\ critical = EmptyDict
    /\ important = EmptyDict
    /\ moderate = EmptyDict
    /\ low = EmptyDict
    /\ next_patchdate = NoneV
    /\ expired = FALSE
    /\ nokernel \in BOOLEAN
    /\ verbose \in BOOLEAN
    /\ inventory \in Inventories
    /\ info = [p \in {} |-> <<>>]
    /\ output = <<>>
    /\ idx = 0
    /\ stage = 0
    /\ l_expired = FALSE
    /\ l_expdate = NoneV
    /\ result = -1
    /\ message = NoMessage
    /\ runs = 1
    /\ calls = 0
    /\ appends = 0
    /\ cleaned = "no"
    /\ fault = ""
    /\ cache0 = <<>>
    /\ wfail = FALSE
    /\ wfails = 0
    /\ evlog = <<>>
    /\ prev = NoPrev
    /\ lookup = NoLookup
    /\ other = OtherIdle(FALSE)

objectVars == <<rc, critical, important, moderate, low, next_patchdate, expired>>
bucketVars == <<critical, important, moderate, low>>
configVars == <<nokernel, verbose, inventory, info, runs, prev, wfails>>
localVars == <<l_expired, l_expdate>>
traceVars == <<calls, appends, cleaned, fault, cache0, wfail, evlog>>
sideVars == <<lookup, other>>

InLoop == pc = "loop" /\ idx <= Len(output)
Line == output[idx]

\* the except clauses of run() and check_expired(): sys.exit(code)
SysExit(exc) ==
    /\ pc' = "exit"
    /\ result' = FaultExit(exc)
    /\ fault' = exc

----------------------------------------------------------------------------
(* run(): the inventory command, lines 113-128 *)

RunInventory ==
    /\ pc = "new"
    /\ rc' = 0
    /\ output' = inventory
    /\ idx' = 1
    /\ stage' = 0
    /\ pc' = "loop"
    /\ UNCHANGED <<cache, bucketVars, next_patchdate, expired, configVars, sideVars,
                   localVars, result, message, traceVars>>

RunInventoryFault(exc) ==
    /\ pc = "new"
    /\ SysExit(exc)
    /\ UNCHANGED <<cache, objectVars, configVars, sideVars, output, idx, stage, localVars,
                   message, calls, appends, cleaned, cache0, wfail, evlog>>

(* run(): the loop body, lines 130-185 *)

NextLine ==
    /\ idx' = idx + 1
    /\ stage' = 0
\* lines 134-139 with the "continue" inside "if verbose"
SkipKernelOnlyVerbose ==
    /\ InLoop /\ stage = 0
    /\ KernelMatch(Line) /\ nokernel
    /\ IF verbose THEN idx' = idx + 1 /\ stage' = 0
       ELSE idx' = idx /\ stage' = NextSev(0, Line)
    /\ UNCHANGED <<cache, pc, objectVars, configVars, sideVars, output, localVars, result,
                   message, traceVars>>

\* lines 134-139: omit kernel patches
SkipKernel ==
    /\ InLoop /\ stage = 0
    /\ KernelMatch(Line) /\ nokernel
    /\ NextLine
    /\ UNCHANGED <<cache, pc, objectVars, configVars, sideVars, output, localVars, result,
                   message, traceVars>>
\* lines 141-147 without the "continue": the line goes on to the severity patterns
AlwaysCriticalNoContinue ==
    /\ InLoop /\ stage = 0
    /\ ~(KernelMatch(Line) /\ nokernel)
    /\ PkgsMatch(Line) # 0
    /\ critical' = Put(critical, PkgsKey(Line), StrV(Today))
    /\ stage' = NextSev(0, Line)
    /\ UNCHANGED <<cache, pc, rc, important, moderate, low, next_patchdate, expired,
                   configVars, sideVars, output, idx, localVars, result, message, traceVars>>

\* lines 141-147: always warn about these packages
AlwaysCritical ==
    /\ InLoop /\ stage = 0
    /\ ~(KernelMatch(Line) /\ nokernel)
    /\ PkgsMatch(Line) # 0
    /\ critical' = Put(critical, PkgsKey(Line), StrV(Today))
    /\ NextLine
    /\ UNCHANGED <<cache, pc, rc, important, moderate, low, next_patchdate, expired,
                   configVars, sideVars, output, localVars, result, message, traceVars>>

\* lines 131-132: neither of the two, go on to the first severity pattern that matches
EnterLine ==
    /\ InLoop /\ stage = 0
    /\ ~(KernelMatch(Line) /\ nokernel)
    /\ PkgsMatch(Line) = 0
    /\ stage' = NextSev(0, Line)
    /\ l_expired' = FALSE
    /\ l_expdate' = NoneV
    /\ UNCHANGED <<cache, pc, objectVars, configVars, sideVars, output, idx, result, message,
                   traceVars>>

\* self.<severity>[m.group(0)] = expiration_date
SetBucket(sev, key, v) ==
    /\ critical' = IF sev = 1 THEN Put(critical, key, v) ELSE critical
    /\ important' = IF sev = 2 THEN Put(important, key, v) ELSE important
    /\ moderate' = IF sev = 3 THEN Put(moderate, key, v) ELSE moderate
    /\ low' = IF sev = 4 THEN Put(low, key, v) ELSE low

\* (expired, expiration_date) = self.check_expired(line, days); bucket assignment
Classified(sev, path, reldate, res) ==
    /\ l_expired' = res.expired
    /\ l_expdate' = res.expdate
    /\ SetBucket(sev, SevKey(sev, Line), res.expdate)
    /\ evlog' = Append(evlog, Eval(Line, sev, DaysLimit(sev), path, reldate, res))
    /\ stage' = NextSev(stage, Line)

\* check_expired, lines 239-240 and 289-292: no patch name at the start of the line
EvalMalformed ==
    /\ InLoop /\ stage \in 1..4
    /\ SevMatch(stage, Line) # 0
    /\ ~PatchMatch(Line)
    /\ Classified(stage, "malformed", NoneV, Expiration(NoneV, DaysLimit(stage)))
    /\ UNCHANGED <<cache, pc, rc, next_patchdate, expired, configVars, sideVars, output, idx,
                   result, message, calls, appends, cleaned, fault, cache0, wfail>>

\* check_expired, lines 244-247 and 281-292: the patch is in the local cache
EvalCached ==
    /\ InLoop /\ stage \in 1..4
    /\ SevMatch(stage, Line) # 0
    /\ PatchMatch(Line)
    /\ CheckCache(cache, PatchOf(Line)).found
    /\ LET patch_date == CheckCache(cache, PatchOf(Line)).date
       IN  Classified(stage, "cached", patch_date,
                      Expiration(patch_date, DaysLimit(stage)))
    /\ UNCHANGED <<cache, pc, rc, next_patchdate, expired, configVars, sideVars, output, idx,
                   result, message, calls, appends, cleaned, fault, cache0, wfail>>

\* check_expired in which a failed update_cache ends the run like a failed command
EvalDetailWriteFatal(out, write_ok) ==
    /\ InLoop /\ stage \in 1..4
    /\ SevMatch(stage, Line) # 0
    /\ PatchMatch(Line)
    /\ ~CheckCache(cache, PatchOf(Line)).found
    /\ write_ok \/ wfails < MaxWriteFailures
    /\ PatchOf(Line) \in DOMAIN info => out = info[PatchOf(Line)]
    /\ info' = [p \in (DOMAIN info) \cup {PatchOf(Line)} |-> out]
    /\ calls' = calls + 1
    /\ rc' = 0
    /\ IF write_ok
       THEN /\ cache' = UpdateCache(cache, PatchOf(Line), DetailDate(out))
            /\ Classified(stage, "detail", DetailDate(out),
                          Expiration(DetailDate(out), DaysLimit(stage)))
            /\ UNCHANGED <<pc, result, fault>>
       ELSE /\ SysExit("Exception")
            /\ UNCHANGED <<cache, bucketVars, localVars, evlog, stage>>
    /\ appends' = IF write_ok THEN appends + 1 ELSE appends
    /\ wfail' = (wfail \/ ~write_ok)
    /\ wfails' = IF write_ok THEN wfails ELSE wfails + 1
    /\ UNCHANGED <<next_patchdate, expired, nokernel, verbose, inventory, runs,
                   prev, sideVars, output, idx, message, cleaned, cache0>>

\* check_expired, lines 248-292: cache miss, the detail command prints out
EvalDetail(out, write_ok) ==
    /\ InLoop /\ stage \in 1..4
    /\ SevMatch(stage, Line) # 0
    /\ PatchMatch(Line)
    /\ ~CheckCache(cache, PatchOf(Line)).found
    /\ write_ok \/ wfails < MaxWriteFailures
    /\ PatchOf(Line) \in DOMAIN info => out = info[PatchOf(Line)]
    /\ info' = [p \in (DOMAIN info) \cup {PatchOf(Line)} |-> out]
    /\ calls' = calls + 1
    /\ rc' = 0
    /\ LET patch_date == DetailDate(out)
       IN  /\ cache' = IF write_ok THEN UpdateCache(cache, PatchOf(Line), patch_date)
                       ELSE cache
           /\ Classified(stage, "detail", patch_date,
                         Expiration(patch_date, DaysLimit(stage)))
    /\ appends' = IF write_ok THEN appends + 1 ELSE appends
    /\ wfail' = (wfail \/ ~write_ok)
    /\ wfails' = IF write_ok THEN wfails ELSE wfails + 1
    /\ UNCHANGED <<pc, next_patchdate, expired, nokernel, verbose, inventory, runs,
                   prev, sideVars, output, idx, result,
                   message, cleaned, fault, cache0>>

\* check_expired, lines 251-264: cache miss, the detail command fails
EvalFault(exc) ==
    /\ InLoop /\ stage \in 1..4
    /\ SevMatch(stage, Line) # 0
    /\ PatchMatch(Line)
    /\ ~CheckCache(cache, PatchOf(Line)).found
    /\ calls' = calls + 1
    /\ SysExit(exc)
    /\ UNCHANGED <<cache, objectVars, configVars, sideVars, output, idx, stage, localVars,
                   message, appends, cleaned, cache0, wfail, evlog>>

\* lines 177-185: the end of the loop body
EndLine ==
    /\ InLoop /\ stage = 5
    /\ expired' = (expired \/ l_expired)
    /\ next_patchdate' =
         IF l_expdate # NoneV
         THEN IF next_patchdate = NoneV THEN l_expdate
              ELSE IF next_patchdate.d > l_expdate.d THEN l_expdate
              ELSE next_patchdate
         ELSE next_patchdate
    /\ NextLine
    /\ UNCHANGED <<cache, pc, rc, bucketVars, configVars, sideVars, output, localVars, result,
                   message, traceVars>>

(* run(): the verbose listing, lines 187-209 *)

\* sorted() of a bucket compares a str with a date and raises TypeError
SortRaises(bucket) ==
    \E k1, k2 \in DOMAIN bucket : bucket[k1].t = "str" /\ bucket[k2].t # "str"

VerboseRaises ==
    verbose /\ (SortRaises(critical) \/ SortRaises(important)
                \/ SortRaises(moderate) \/ SortRaises(low))

\* the loop is over: the verbose listing, then run() returns to main()
FinishRun ==
    /\ pc = "loop" /\ idx > Len(output)
    /\ pc' = IF VerboseRaises THEN "crashed" ELSE "output"
    /\ UNCHANGED <<cache, objectVars, configVars, sideVars, output, idx, stage, localVars,
                   result, message, traceVars>>

----------------------------------------------------------------------------
(* create_output, lines 211-232 *)

ReturnCodes(code) ==
    CASE code = OK -> "OK"
      [] code = WARNING -> "WARNING"
      [] code = CRITICAL -> "CRITICAL"
      [] code = UNKNOWN -> "UNKNOWN"

Size(bucket) == Cardinality(DOMAIN bucket)
\* create_output with the two tests in the other order
VerdictWarningLast(rc_, expired_, ncritical, nimportant, nmoderate, nlow) ==
    IF rc_ >= 0
    THEN LET r1 == IF ncritical > 0 THEN CRITICAL ELSE OK
             r2 == IF expired_ /\ (nimportant > 0 \/ nmoderate > 0 \/ nlow > 0)
                   THEN WARNING ELSE r1
         IN  r2
    ELSE UNKNOWN

\* the result of create_output for the fields of the object
Verdict(rc_, expired_, ncritical, nimportant, nmoderate, nlow) ==
    IF rc_ >= 0
    THEN LET r0 == OK
             r1 == IF expired_ /\ (nimportant > 0 \/ nmoderate > 0 \/ nlow > 0)
                   THEN WARNING ELSE r0
             r2 == IF ncritical > 0 THEN CRITICAL ELSE r1
         IN  r2
    ELSE UNKNOWN

\* main() asks for the result (after run(), or without having run at all) and prints it
CreateOutput ==
    /\ pc \in {"new", "output"}
    /\ result' = Verdict(rc, expired, Size(critical), Size(important),
                         Size(moderate), Size(low))
    /\ message' =
         IF rc >= 0
         THEN [label |-> ReturnCodes(result'),
               counts |-> <<Size(critical), Size(important), Size(moderate), Size(low)>>,
               next_patchdate |-> next_patchdate]
         ELSE [label |-> ReturnCodes(UNKNOWN), counts |-> <<>>, next_patchdate |-> NoneV]
    /\ pc' = "clean"
    /\ UNCHANGED <<cache, objectVars, configVars, sideVars, output, idx, stage, localVars,
                   traceVars>>

----------------------------------------------------------------------------
(* clean_cache, lines 324-357, and exit(result) *)

\* a cache file that was never written does not exist: the read step fails
CleanCache(write_ok) ==
    /\ pc = "clean"
    /\ cache' = IF cache # <<>> /\ write_ok THEN CleanedCache(cache) ELSE cache
    /\ cleaned' = IF cache # <<>> /\ write_ok THEN "done" ELSE "failed"
    /\ pc' = "exit"
    /\ UNCHANGED <<objectVars, configVars, sideVars, output, idx, stage, localVars, result,
                   message, calls, appends, fault, cache0, wfail, evlog>>

----------------------------------------------------------------------------
(* The next invocation of the probe on the same host, with the same options *)

Summary ==
    [ended |-> pc, critical |-> critical, important |-> important,
     moderate |-> moderate, low |-> low, expired |-> expired,
     next_patchdate |-> next_patchdate, result |-> result, message |-> message,
     results |-> [i \in 1..Len(evlog) |->
                    [line |-> evlog[i].line, sev |-> evlog[i].sev,
                     expired |-> evlog[i].expired, expdate |-> evlog[i].expdate]],
     paths |-> {evlog[i].path : i \in 1..Len(evlog)},
     rc |-> rc, faulted |-> fault # "", wfail |-> wfail]

NewRun ==
    /\ pc \in {"exit", "crashed"}
    /\ runs < MaxRuns
    /\ runs' = runs + 1
    /\ prev' = Summary
    /\ pc' = "new"
    /\ FreshObject
    /\ calls' = 0
    /\ appends' = 0
    /\ cleaned' = "no"
    /\ fault' = ""
    /\ cache0' = cache
    /\ wfail' = FALSE
    /\ evlog' = <<>>
    /\ UNCHANGED <<cache, nokernel, verbose, inventory, info, wfails, sideVars>>

----------------------------------------------------------------------------

Next ==
    \/ RunInventory
    \/ \E exc \in Faults : RunInventoryFault(exc)
    \/ SkipKernel
    \/ AlwaysCritical
    \/ EnterLine
    \/ EvalMalformed
    \/ EvalCached
    \/ \E out \in DetailOutputs, write_ok \in BOOLEAN : EvalDetail(out, write_ok)
    \/ \E exc \in Faults : EvalFault(exc)
    \/ EndLine
    \/ FinishRun
    \/ CreateOutput
    \/ \E write_ok \in BOOLEAN : CleanCache(write_ok)
    \/ NewRun

Spec == Init /\ [][Next]_vars

----------------------------------------------------------------------------
(* Two probe processes on the same host and the same cache file.  The second
   one is followed only through what it does to the file: a check_expired call
   of it reads the file (check_cache), runs the detail command and appends
   (update_cache), and the first probe may take steps between the two. *)

\* this probe is not inside an invocation
MainIdle == pc \in {"new", "exit", "crashed"}

\* run() of the second probe passes the line to check_expired
Evaluated(line) ==
    /\ ~(nokernel /\ KernelMatch(line))
    /\ PkgsMatch(line) = 0
    /\ \E sev \in 1..4 : SevMatch(sev, line) # 0
    /\ PatchMatch(line)

\* check_expired of the second probe, lines 239-248: the patch is not in the cache
OtherMiss(i) ==
    /\ other.pc = "idle"
    /\ i \in 1..Len(inventory)
    /\ Evaluated(inventory[i])
    /\ ~CheckCache(cache, PatchOf(inventory[i])).found
    /\ other' = [pc |-> "missed", patch |-> PatchOf(inventory[i]),
                 at |-> IF MainIdle THEN <<runs, pc>> ELSE <<0, "">>,
                 overlap |-> other.overlap]
    /\ UNCHANGED <<cache, pc, objectVars, configVars, output, idx, stage, localVars,
                   result, message, traceVars, lookup>>

\* check_expired of the second probe, lines 250-279: detail command and append
OtherAppend(out) ==
    /\ other.pc = "missed"
    /\ other.patch \in DOMAIN info => out = info[other.patch]
    /\ info' = [p \in (DOMAIN info) \cup {other.patch} |-> out]
    /\ cache' = UpdateCache(cache, other.patch, DetailDate(out))
    /\ other' = OtherIdle(other.overlap \/ other.at # <<runs, pc>>)
    /\ UNCHANGED <<pc, objectVars, nokernel, verbose, inventory, runs, prev, wfails,
                   output, idx, stage, localVars, result, message, traceVars, lookup>>

InitConcurrent == Init /\ Len(inventory) <= MaxSharedLines

NextConcurrent ==
    \/ Next
    \/ \E i \in 1..MaxSharedLines : OtherMiss(i)
    \/ \E out \in DetailOutputs : OtherAppend(out)

SpecConcurrent == InitConcurrent /\ [][NextConcurrent]_vars

----------------------------------------------------------------------------
(* The cache file by itself: a host with nothing to update, whose probe finds a
   cache file left by earlier invocations, reads it and compacts it *)

CachePatches == {"RHSA-1", "RHSA-2"}

\* what update_cache writes in the second column
CacheDates == {StrV(Today - (SlaCritical - 1)), StrV(Today - Retention), NoneStr}

CacheFiles ==
    UNION {[1..n -> {Row(p, d) : p \in CachePatches, d \in CacheDates}] : n \in 0..MaxRows}

InitCache ==
    /\ cache \in CacheFiles
    /\ pc = "new"
    /\ rc = -1
    /\ critical = EmptyDict
    /\ important = EmptyDict
    /\ moderate = EmptyDict
    /\ low = EmptyDict
    /\ next_patchdate = NoneV
    /\ expired = FALSE
    /\ nokernel = FALSE
    /\ verbose = FALSE
    /\ inventory = <<>>
    /\ info = [p \in {} |-> <<>>]
    /\ output = <<>>
    /\ idx = 0
    /\ stage = 0
    /\ l_expired = FALSE
    /\ l_expdate = NoneV
    /\ result = -1
    /\ message = NoMessage
    /\ runs = 1
    /\ calls = 0
    /\ appends = 0
    /\ cleaned = "no"
    /\ fault = ""
    /\ cache0 = cache
    /\ wfail = FALSE
    /\ wfails = 0
    /\ evlog = <<>>
    /\ prev = NoPrev
    /\ lookup = NoLookup
    /\ other = OtherIdle(FALSE)

\* check_cache(patch) on the file as it is
Lookup(patch) ==
    /\ lookup' = [patch |-> patch, found |-> CheckCache(cache, patch).found,
                  date |-> CheckCache(cache, patch).date, seen |-> cache]
    /\ UNCHANGED <<cache, pc, objectVars, configVars, output, idx, stage, localVars,
                   result, message, traceVars, other>>

NextCache ==
    \/ RunInventory
    \/ \E exc \in Faults : RunInventoryFault(exc)
    \/ FinishRun
    \/ CreateOutput
    \/ CleanCache(TRUE)
    \/ NewRun
    \/ \E patch \in CachePatches \cup {"RHSA-3"} : Lookup(patch)

CacheSpec == InitCache /\ [][NextCache]_vars

----------------------------------------------------------------------------
(* Properties *)

\* create_output has returned in this invocation
OutputCreated == message # NoMessage

\* the cache file holds a row for the patch
HasRecord(c, patch) == \E i \in 1..Len(c) : c[i].patch = patch

\* the state is one in which run() is about to call check_expired for the current line
AtEval == InLoop /\ stage \in 1..4

(* C1: create_output returns Unknown when rc < 0; otherwise Critical exactly when
   the Critical bucket is non-empty; otherwise Degraded exactly when anyExpired
   holds and one of the Important, Moderate, Low buckets is non-empty; otherwise
   Healthy.  The label of the report line is that of the verdict. *)
C1_VerdictPrecedence ==
    OutputCreated =>
      /\ result = IF rc < 0 THEN UNKNOWN
                  ELSE IF DOMAIN critical # {} THEN CRITICAL
                  ELSE IF expired /\ (DOMAIN important \cup DOMAIN moderate
                                      \cup DOMAIN low) # {} THEN WARNING
                  ELSE OK
      /\ message.label = ReturnCodes(result)

\* a non-empty Critical bucket has overridden the Degraded condition
C1_Witness ==
    /\ OutputCreated
    /\ result = CRITICAL
    /\ expired
    /\ DOMAIN important # {}

(* C2: every check_expired call whose release date was resolved returned
   expirationDate = releaseDate + slaDays (30 for the Critical marker, 90 for the
   others) and expired = TRUE exactly when today >= expirationDate. *)
C2_ExpirationBoundary ==
    \A i \in 1..Len(evlog) :
      LET e == evlog[i]
          sla == IF e.sev = 1 THEN 30 ELSE 90
      IN  e.reldate # NoneV =>
            /\ e.days = sla
            /\ e.expdate = DateV(e.reldate.d + sla)
            /\ e.expired <=> (Today >= e.reldate.d + sla)

\* one release date exactly slaDays old (expired), one slaDays - 1 old (not expired)
C2_Witness ==
    /\ \E i \in 1..Len(evlog) :
         /\ evlog[i].reldate = DateV(Today - evlog[i].days)
         /\ evlog[i].expired
         /\ evlog[i].days = 30
    /\ \E i \in 1..Len(evlog) :
         /\ evlog[i].reldate = DateV(Today - (evlog[i].days - 1))
         /\ ~evlog[i].expired
         /\ evlog[i].days = 90
         /\ evlog[i].expdate = DateV(Today + 1)

(* C3: a check_expired call for a patch that has a row in the cache invokes no
   detail command and appends nothing to the cache; its result is computed from
   the date of the row, and is (FALSE, none) when the row holds "None". *)
C3_CacheHitStep ==
    (AtEval /\ PatchMatch(Line) /\ HasRecord(cache, PatchOf(Line))) =>
      LET row == CHOOSE r \in {cache[i] : i \in 1..Len(cache)} : r.patch = PatchOf(Line)
          days == IF stage = 1 THEN 30 ELSE 90
      IN  /\ calls' = calls
          /\ cache' = cache
          /\ appends' = appends
          /\ fault' = ""
          /\ Len(evlog') = Len(evlog) + 1
          /\ LET e == evlog'[Len(evlog')]
             IN  IF row.date = NoneStr
                 THEN ~e.expired /\ e.expdate = NoneV
                 ELSE /\ e.expdate = DateV(row.date.d + days)
                      /\ e.expired <=> (Today >= row.date.d + days)

C3_CacheHit == [][C3_CacheHitStep]_vars

\* in the second invocation a row holding "None" was hit; in the first one a row
\* appended earlier in the same invocation was hit
C3_Witness ==
    /\ runs = 2
    /\ "cached" \in prev.paths
    /\ \E i \in 1..Len(evlog) :
         evlog[i].path = "cached" /\ evlog[i].reldate = NoneV
    /\ calls = 0

\* the lines of the inventory the loop of run() has gone through
Processed == 1..(idx - 1)

\* the line went through the always-critical branch: bucket entry, no check_expired
AlwaysCriticalDone(line) ==
    /\ PkgsKey(line) \in DOMAIN critical
    /\ critical[PkgsKey(line)] = StrV(Today)
    /\ \A k \in 1..Len(evlog) : evlog[k].line # line

(* C4, as claimed: every processed line that matches an always-critical package
   pattern is in the Critical bucket with today's date and was never passed to
   check_expired, whatever the kernel filter and the cache. *)
C4_AlwaysCriticalAnyFilter ==
    \A i \in Processed : PkgsMatch(output[i]) # 0 => AlwaysCriticalDone(output[i])

(* C4, amended: the same for every processed line that matches an always-critical
   package pattern and is not a kernel line dropped by the kernel filter. *)
C4_AlwaysCritical ==
    \A i \in Processed :
      (PkgsMatch(output[i]) # 0 /\ ~(nokernel /\ KernelMatch(output[i])))
        => AlwaysCriticalDone(output[i])

\* a line matching both patterns, filter off, its patch already in the cache
C4_Witness ==
    \E i \in Processed :
      /\ PkgsMatch(output[i]) # 0
      /\ KernelMatch(output[i])
      /\ ~nokernel
      /\ HasRecord(cache, PatchOf(output[i]))
      /\ AlwaysCriticalDone(output[i])

(* C5: an external command that fails ends the invocation there: exit code 3 for
   a timeout or an invalid invocation, 2 for a missing binary or any other
   fault; no report line, no compaction, and the only step that follows is the
   next invocation of the probe. *)
C5_FaultState ==
    fault # "" =>
      /\ pc = "exit"
      /\ result = IF fault \in {"TimeoutExpired", "ValueError"} THEN 3 ELSE 2
      /\ message = NoMessage
      /\ cleaned = "no"

C5_FaultStep ==
    fault # "" => /\ runs' = runs + 1
                  /\ cache' = cache
                  /\ calls' = 0

C5_FaultEndsRun == []C5_FaultState /\ [][C5_FaultStep]_vars

\* a detail command timed out after an earlier one had succeeded and was cached
C5_Witness ==
    /\ fault = "TimeoutExpired"
    /\ calls = 2
    /\ appends = 1
    /\ result = UNKNOWN

(* C6, as claimed: after clean_cache has rewritten the file no row is 365 or more
   days old, and every patch evaluated in this invocation whose release date is
   less than 365 days old still has its row. *)
C6_CompactionEvicts ==
    cleaned = "done" =>
      /\ \A i \in 1..Len(cache) :
           cache[i].date # NoneStr => Today - cache[i].date.d < Retention
      /\ wfails = 0 =>
           \A k \in 1..Len(evlog) :
             (evlog[k].reldate # NoneV /\ Today - evlog[k].reldate.d < Retention)
               => HasRecord(cache, PatchOf(evlog[k].line))

IsAdvisory(line) == PkgsMatch(line) # 0 \/ \E sev \in 1..4 : SevMatch(sev, line) # 0

(* C7: with the kernel filter on, the step that processes a kernel line changes
   no bucket, no cache row, no counter of detail calls, neither anyExpired nor
   nextPatchDate, and makes no check_expired call; a run whose advisory lines
   are all kernel lines reports four zero counts and Healthy. *)
C7_KernelStep ==
    (InLoop /\ stage = 0 /\ nokernel /\ KernelMatch(Line)) =>
      /\ UNCHANGED <<critical, important, moderate, low, cache, calls, appends,
                     expired, next_patchdate, evlog, pc>>
      /\ idx' = idx + 1

C7_KernelOnlyRun ==
    (OutputCreated /\ rc >= 0 /\ nokernel
     /\ \A i \in 1..Len(output) : IsAdvisory(output[i]) => KernelMatch(output[i]))
      => /\ message.counts = <<0, 0, 0, 0>>
         /\ result = OK
         /\ message.label = "OK"

C7_KernelFiltered == []C7_KernelOnlyRun /\ [][C7_KernelStep]_vars

\* a finished run over two kernel lines, one of them also an always-critical match
C7_Witness ==
    /\ OutputCreated /\ rc >= 0 /\ nokernel
    /\ Len(output) = 2
    /\ KernelMatch(output[1]) /\ KernelMatch(output[2])
    /\ PkgsMatch(output[2]) # 0
    /\ result = OK
    /\ message.counts = <<0, 0, 0, 0>>

\* the previous invocation ran the evaluator over the whole inventory
PrevCompleted ==
    /\ prev.ended \in {"exit", "crashed"}
    /\ ~prev.faulted
    /\ prev.rc >= 0

\* this invocation has run the evaluator over the whole inventory
LoopDone == rc >= 0 /\ fault = "" /\ pc \in {"output", "clean", "exit", "crashed"}

Results ==
    [i \in 1..Len(evlog) |->
       [line |-> evlog[i].line, sev |-> evlog[i].sev,
        expired |-> evlog[i].expired, expdate |-> evlog[i].expdate]]

(* C8: an invocation that follows a completed one whose cache writes all
   succeeded, on the same inventory and the same day, makes no detail call and
   appends nothing; once the inventory command has succeeded nothing ends it
   early, and once through the inventory it has the same buckets, the same
   per-advisory results, the same anyExpired and nextPatchDate, and it ends with
   the same verdict and report line.  Before compaction the cache is what the
   invocation found, followed by one row per append, each for a patch that had
   no row. *)
C8_Idempotent ==
    /\ (runs >= 2 /\ PrevCompleted /\ ~prev.wfail) =>
         /\ calls = 0
         /\ appends = 0
         /\ rc >= 0 => fault = ""
         /\ LoopDone =>
              /\ critical = prev.critical
              /\ important = prev.important
              /\ moderate = prev.moderate
              /\ low = prev.low
              /\ Results = prev.results
              /\ expired = prev.expired
              /\ next_patchdate = prev.next_patchdate
         /\ (LoopDone /\ pc \in {"exit", "crashed"}) =>
              /\ pc = prev.ended
              /\ result = prev.result
              /\ message = prev.message
    /\ cleaned = "no" =>
         /\ Len(cache) = Len(cache0) + appends
         /\ SubSeq(cache, 1, Len(cache0)) = cache0
         /\ \A i \in (Len(cache0) + 1)..Len(cache) : ~HasRecord(cache0, cache[i].patch)

\* the second invocation ended like the first, which had cached two release dates
C8_Witness ==
    /\ runs = 2 /\ PrevCompleted /\ ~prev.wfail
    /\ pc = "exit" /\ LoopDone
    /\ Len(cache0) = 2
    /\ Len(evlog) = 2
    /\ expired
    /\ result = WARNING
    /\ next_patchdate # NoneV

(* C9, as claimed: an invocation in which every external command succeeds never
   aborts, and ends with Healthy, Degraded or Critical. *)
C9_RunCompletes ==
    (rc >= 0 /\ fault = "") =>
      /\ pc # "crashed"
      /\ pc = "exit" => result \in {OK, WARNING, CRITICAL}

\* the row check_expired is to append for what the detail command printed
ExpectedRow(patch, out) ==
    LET matching == {i \in 1..Len(out) :
                       out[i].label \in {"Updated", "Issued"} /\ out[i].val.t = "ts"}
    IN  IF matching = {} THEN Row(patch, NoneStr)
        ELSE Row(patch, StrV(out[CHOOSE i \in matching : \A j \in matching : i <= j].val.d))

\* a check_expired call on a cache miss whose detail command succeeds
MissStep ==
    /\ AtEval /\ PatchMatch(Line)
    /\ ~HasRecord(cache, PatchOf(Line))
    /\ fault' = ""

\* rows stay: a patch that has a row keeps it, whatever step is taken
RowsStay == \A i \in 1..Len(cache) : HasRecord(cache', cache[i].patch)

(* C10, as claimed: a check_expired call on a cache miss whose detail command
   succeeds appends exactly one row, holding the date of the first matching
   info line or "None" when no line matches; rows stay, so that every later
   call for the patch finds it. *)
C10_MissAppendsStep ==
    /\ MissStep => cache' = Append(cache, ExpectedRow(PatchOf(Line), info'[PatchOf(Line)]))
    /\ RowsStay

C10_MissAppendsIfWrittenStep ==
    /\ (MissStep /\ wfails' = wfails) =>
         cache' = Append(cache, ExpectedRow(PatchOf(Line), info'[PatchOf(Line)]))
    /\ (MissStep /\ wfails' # wfails) => cache' = cache
    /\ RowsStay

ReturnedDates == {evlog[i].expdate.d : i \in {k \in 1..Len(evlog) : evlog[k].expdate # NoneV}}

\* the loop of run() stands between two lines, or is over
BetweenLines == fault = "" /\ stage = 0

(* C11, as claimed: between two lines of the inventory and at the end of the run,
   nextPatchDate is the least expiration date check_expired has returned so far
   in the run, and none when it has returned none; also for a line that carries
   several severity markers. *)
C11_NextPatchDateMin ==
    BetweenLines =>
      next_patchdate = IF ReturnedDates = {} THEN NoneV
                       ELSE DateV(CHOOSE d \in ReturnedDates : \A e \in ReturnedDates : d <= e)

(* C12, as claimed: once run() is through the inventory, anyExpired holds exactly
   when one of the check_expired calls of the run returned expired = TRUE; also
   for a line that carries several severity markers. *)
C12_AnyExpired ==
    LoopDone => (expired <=> \E i \in 1..Len(evlog) : evlog[i].expired)

(* C13, as claimed: the step that evaluates a line from which no patch name can be
   taken changes no bucket, looks nothing up, calls no command, appends nothing
   to the cache, and run() stays in its loop. *)
C13_MalformedStep ==
    (AtEval /\ ~PatchMatch(Line)) =>
      /\ UNCHANGED <<critical, important, moderate, low>>
      /\ UNCHANGED <<cache, calls, appends>>
      /\ pc' = "loop" /\ fault' = ""

C13_MalformedSkipped == [][C13_MalformedStep]_vars

\* the lines of the inventory that run() classifies into the severity
LinesOf(sev) ==
    {i \in 1..Len(output) :
       /\ ~(nokernel /\ KernelMatch(output[i]))
       /\ IF PkgsMatch(output[i]) # 0 THEN sev = 1
          ELSE \E k \in 1..Len(output[i]) : output[i][k] = Marker(sev)}

\* the advisory text of a classified line: from the package name on for an
\* always-critical line, from the severity marker on for the others
AdvisoryText(sev, line) ==
    IF PkgsMatch(line) # 0 THEN PkgsKey(line)
    ELSE LET at == {k \in 1..Len(line) : line[k] = Marker(sev)}
             k0 == CHOOSE k \in at : \A j \in at : k <= j
         IN  [j \in 1..(Len(line) - k0 + 1) |-> line[k0 + j - 1]]

TextsOf(sev) == {AdvisoryText(sev, output[i]) : i \in LinesOf(sev)}

(* C19: each of the four counts of the report line is the number of distinct
   advisory texts among the lines classified into that severity, and so at most
   the number of those lines. *)
C19_CountsDistinctTexts ==
    (OutputCreated /\ rc >= 0) =>
      \A sev \in 1..4 :
        /\ message.counts[sev] = Cardinality(TextsOf(sev))
        /\ message.counts[sev] <= Cardinality(LinesOf(sev))

\* two lines with different patch names and the same text count once
C19_Witness ==
    /\ OutputCreated /\ rc >= 0
    /\ Len(output) = 2
    /\ PatchOf(output[1]) # PatchOf(output[2])
    /\ LinesOf(1) = {1, 2}
    /\ message.counts = <<1, 0, 0, 0>>

\* the step is a check_expired call whose cache append fails
AppendFails == AtEval /\ wfails' # wfails

(* C15: a check_expired call whose cache append fails leaves the cache as it was
   and ends nothing: it returns the pair computed from the date the detail
   command printed, the bucket entry is made with it, and run() stays in its
   loop on the same line, ready for the next pattern or the next line.  An
   invocation in which an append failed and no command did ends with a report
   line and its verdict. *)
C15_AppendFailureStep ==
    AppendFails =>
      LET row == ExpectedRow(PatchOf(Line), info'[PatchOf(Line)])
          days == IF stage = 1 THEN 30 ELSE 90
          date == IF row.date = NoneStr THEN NoneV ELSE DateV(row.date.d + days)
          e == evlog'[Len(evlog')]
      IN  /\ cache' = cache
          /\ fault' = "" /\ pc' = "loop" /\ idx' = idx /\ stage' > stage
          /\ Len(evlog') = Len(evlog) + 1
          /\ e.expdate = date
          /\ e.expired <=> (date # NoneV /\ Today >= date.d)
          /\ l_expdate' = e.expdate /\ l_expired' = e.expired
          /\ (CASE stage = 1 -> critical'
                [] stage = 2 -> important'
                [] stage = 3 -> moderate'
                [] stage = 4 -> low')[AdvisoryText(stage, Line)] = date

C15_AppendFailureEnd ==
    (wfail /\ pc = "exit" /\ fault = "") =>
      /\ OutputCreated
      /\ result \in {OK, WARNING, CRITICAL}
      /\ message.label = ReturnCodes(result)

C15_AppendFailureNotFatal == []C15_AppendFailureEnd /\ [][C15_AppendFailureStep]_vars

\* an append failed on the first line; the second line was evaluated and cached,
\* and the invocation reported Degraded
C15_Witness ==
    /\ wfail /\ pc = "exit" /\ fault = ""
    /\ Len(evlog) = 2
    /\ evlog[1].path = "detail" /\ ~HasRecord(cache, PatchOf(evlog[1].line))
    /\ evlog[2].path = "detail" /\ HasRecord(cache, PatchOf(evlog[2].line))
    /\ result = WARNING

\* the rows of the file that hold the patch
RowsOf(c, patch) == {i \in 1..Len(c) : c[i].patch = patch}

(* C14: check_cache reports a miss exactly when the file holds no row of the
   patch; otherwise it returns the value of the row nearest the start of the
   file: the date, or none for "None". *)
C14_LookupFirstMatch ==
    lookup.patch # "" =>
      LET at == RowsOf(lookup.seen, lookup.patch)
      IN  /\ lookup.found <=> at # {}
          /\ at = {} => lookup.date = NoneV
          /\ at # {} =>
               LET row == lookup.seen[CHOOSE i \in at : \A j \in at : i <= j]
               IN  lookup.date = IF row.date = NoneStr THEN NoneV ELSE DateV(row.date.d)

\* a row of another patch first, then two rows of the patch with different values
C14_Witness ==
    /\ Len(lookup.seen) = 3
    /\ RowsOf(lookup.seen, lookup.patch) = {2, 3}
    /\ lookup.seen[2].date = StrV(Today - Retention)
    /\ lookup.seen[3].date = NoneStr
    /\ lookup.found /\ lookup.date = DateV(Today - Retention)

\* the step is a check_cache call for the patch looked up last, that call saw the
\* file as this invocation found it, and clean_cache has rewritten the file since
LookupAfterCompaction ==
    /\ lookup.patch # "" /\ lookup.seen = cache0
    /\ cleaned = "done"
    /\ lookup'.patch = lookup.patch /\ lookup'.seen = cache

(* C17, as claimed: for a patch clean_cache has not removed from the file,
   check_cache returns after the compaction what it returned before it; a patch
   that was a miss before is a miss after. *)
C17_LookupStep ==
    LookupAfterCompaction =>
      /\ HasRecord(cache, lookup.patch) =>
           lookup'.found = lookup.found /\ lookup'.date = lookup.date
      /\ ~lookup.found => ~lookup'.found

C17_CompactionKeepsLookups == [][C17_LookupStep]_vars

\* the file holds one row per patch at most
OneRowPerPatch(c) == \A i, j \in 1..Len(c) : c[i].patch = c[j].patch => i = j

\* the step is the clean_cache call of an invocation that follows one that ran
\* to its end and rewrote the file, with nothing appended in between
SecondCompaction ==
    /\ pc = "clean" /\ pc' = "exit"
    /\ runs >= 2 /\ ~prev.faulted
    /\ appends = 0 /\ cache0 # <<>>

(* C18: a clean_cache call that follows another on the same day, with nothing
   appended in between, leaves the file as it is, row for row; and a file
   clean_cache has rewritten holds one row per patch at most. *)
C18_SecondCompactionStep == SecondCompaction => (cleaned' = "done" /\ cache' = cache)

C18_CompactedState == cleaned = "done" => OneRowPerPatch(cache)

C18_CompactionIdempotent == []C18_CompactedState /\ [][C18_SecondCompactionStep]_vars

\* after the second compaction: two patches with the same date, the one that
\* was first in the file still first
C18_Witness ==
    /\ runs = 2 /\ pc = "exit" /\ cleaned = "done"
    /\ Len(cache) = 2
    /\ cache[1].date = cache[2].date
    /\ cache[1].patch = "RHSA-2"

(* C16, as claimed: the cache file never holds two rows of one patch, whatever
   the two probes that share it do and however their steps interleave. *)
C16_OneRecordPerId == OneRowPerPatch(cache)

(* C16, amended: the cache file never holds two rows of one patch as long as no
   check_expired call of the second probe was under way while this probe took
   a step. *)
C16_OneRecordPerIdNoOverlap == ~other.overlap => OneRowPerPatch(cache)

\* the second probe has appended between two invocations of this one; the second
\* invocation found the row, appended nothing and compacted the file
C16_Witness ==
    /\ ~other.overlap /\ other.pc = "idle"
    /\ runs = 2 /\ pc = "exit" /\ cleaned = "done"
    /\ ~prev.faulted /\ prev.paths = {"detail"} /\ prev.wfail
    /\ Len(cache0) = 1
    /\ Len(cache) = 1
    /\ \E i \in 1..Len(evlog) : evlog[i].path = "cached"
    /\ appends = 0

====
